---- MODULE Spec2Model ----
(***************************************************************************)
(* A model of tagso/static/common.js: the client-side helpers of the       *)
(* Tagsonomy pages.  The file holds two implementations of the same        *)
(* features: global functions addressed by element id (lines 28-377) and   *)
(* an attribute-driven binder (lines 396-581).  A page uses one of them,   *)
(* so each gets its own specification over the shared variables.           *)
(*                                                                         *)
(* Text is a sequence of one-character strings, so that percent-encoding   *)
(* and HTML parsing are computed and not assumed.                          *)
(***************************************************************************)
EXTENDS Integers, Sequences, FiniteSets, TLC

VARIABLES
    \* ---- delete pages -------------------------------------------------
    rows,        \* the elements the page shows
    pending,     \* DELETE requests whose promise has not settled yet
    wire,        \* every HTTP request issued so far, in order
    dialogs,     \* every confirm() and alert() shown so far, in order
    reloadCalls, \* number of calls of location.reload()
    page,        \* "live", or "unloading" once location.reload() was called
    nclicks,     \* number of delete clicks so far
    \* ---- cascade and URI pages ----------------------------------------
    impl,        \* which implementation the page uses: "attr" or "id"
    sel,         \* the select elements: options, disabled flag, value
    uri,         \* the value of each URI input
    fetches,     \* GET requests whose promise has not settled yet
    nfetch,      \* number of GET requests issued so far
    lastSettled, \* the GET that settled last and what came back
    labelInput,  \* the value of the label input
    \* ---- form pages: alternative labels and list filter -----------------
    container,   \* the rows of the alt-label container, in document order
    startCount,  \* number of rows the server rendered
    nAdd,        \* number of add clicks so far
    nRemove,     \* number of remove clicks so far
    clicked,     \* key of the row whose remove control was clicked last
    query,       \* the value of the filter input
    list,        \* the children of the filtered list, each with its hidden flag
    listExists,  \* whether the document holds the target list
    threw        \* whether the last handler ended in an uncaught exception

delVars == <<rows, pending, wire, dialogs, reloadCalls, page, nclicks>>

casVars == <<impl, sel, uri, fetches, nfetch, lastSettled>>

formVars == <<labelInput, container, startCount, nAdd, nRemove, clicked, query,
              list, listExists, threw>>

vars == <<delVars, casVars, formVars>>

\* ------------------------------------------------------------------------
\* Bounds
\* ------------------------------------------------------------------------
MaxClicks == 3
MaxFetch == 2

\* ------------------------------------------------------------------------
\* Delete operations
\* ------------------------------------------------------------------------

\* The delete controls of a page and their data-* attributes (btn.dataset).
Buttons == {"b_concept", "b_rel", "b_plain"}

Dataset(b) ==
    CASE b = "b_concept" ->
           [delete |-> "", url |-> "/concepts/delete", type |-> "concept",
            uri |-> "u1"]
      [] b = "b_rel" ->
           [delete |-> "", url |-> "/relationships/delete",
            type |-> "relationship", subject_uri |-> "s1",
            predicate_type |-> "broader", object_uri |-> "o1"]
      [] OTHER ->
           [delete |-> "", url |-> "/items/delete"]

\* btn.dataset.type || 'item'
ItemTypeOf(b) ==
    IF "type" \in DOMAIN Dataset(b) /\ Dataset(b)["type"] # ""
    THEN Dataset(b)["type"] ELSE "item"

\* The keys that are configuration and not payload.
ExcludedKeys == {"url", "type", "delete"}

\* A variant of the body that filters out url and delete only.
BuildBody_KeepsType(b) ==
    [k \in DOMAIN Dataset(b) \ {"url", "delete"} |-> Dataset(b)[k]]

\* The request body: every data-* entry except url, type and delete.
BuildBody(b) ==
    [k \in DOMAIN Dataset(b) \ ExcludedKeys |-> Dataset(b)[k]]

\* window.TAGSO_CONFIG, as the id-based delete functions read it.
ItemKinds == {"concept", "column"}

ConfigDeleteUrl(kind) ==
    CASE kind = "concept" -> "/concepts/delete"
      [] kind = "column" -> "/columns/delete"
      [] OTHER -> "/relationships/delete"

ConfirmDialog(itemType, answer) ==
    [kind |-> "confirm", itemType |-> itemType, answer |-> answer]

AlertDialog(itemType) ==
    [kind |-> "alert", itemType |-> itemType, answer |-> FALSE]

DeleteRequest(url, body) == [method |-> "DELETE", url |-> url, body |-> body]

\* The effect of the handler behind a confirm(): nothing when declined, one
\* fetch when confirmed.
\* A variant of the handler that fetches whatever confirm() returned.
ConfirmThenFetch_Always(itemType, url, body, via, answer) ==
    /\ nclicks < MaxClicks
    /\ nclicks' = nclicks + 1
    /\ dialogs' = Append(dialogs, ConfirmDialog(itemType, answer))
    /\ wire' = Append(wire, DeleteRequest(url, body))
    /\ pending' = Append(pending, [impl |-> via, itemType |-> itemType,
                                   url |-> url])
    /\ UNCHANGED <<rows, reloadCalls, page, casVars, formVars>>

ConfirmThenFetch(itemType, url, body, via, answer) ==
    /\ nclicks < MaxClicks
    /\ nclicks' = nclicks + 1
    /\ dialogs' = Append(dialogs, ConfirmDialog(itemType, answer))
    /\ IF answer
       THEN /\ wire' = Append(wire, DeleteRequest(url, body))
            /\ pending' = Append(pending, [impl |-> via, itemType |-> itemType,
                                           url |-> url])
       ELSE UNCHANGED <<wire, pending>>
    /\ UNCHANGED <<rows, reloadCalls, page, casVars, formVars>>

\* The document click listener of initDeleteButtons, for a click inside a
\* [data-delete] control.
ClickDelete(b, answer) ==
    ConfirmThenFetch(ItemTypeOf(b), Dataset(b)["url"], BuildBody(b), "attr", answer)

\* deleteItem(uri, deleteUrl, itemType), through delete_concept and friends.
deleteItem(itemUri, kind, answer) ==
    ConfirmThenFetch(kind, ConfigDeleteUrl(kind), [uri |-> itemUri], "id", answer)

\* delete_relationship(subject_uri, predicate_type, object_uri)
delete_relationship(s, o, answer) ==
    ConfirmThenFetch("relationship", ConfigDeleteUrl("relationship"),
                     [subject_uri |-> s, predicate_type |-> "broader",
                      object_uri |-> o], "id", answer)

\* How a DELETE can end: a 2xx response, another status, or no response.
Outcomes == {"ok", "status", "network"}

\* .then(r => r.ok ? location.reload() : Promise.reject()).catch(() => alert())
\* The result is <<reload is called, number of alerts>>.
SettleAttr(outcome) ==
    IF outcome = "ok" THEN <<TRUE, 0>> ELSE <<FALSE, 1>>

\* A variant without the alert of the catch callback.
SettleId_Silent(outcome) ==
    IF outcome = "ok" THEN <<TRUE, 0>>
    ELSE IF outcome = "status" THEN <<FALSE, 1>> ELSE <<FALSE, 0>>

\* .then(response => response.ok ? reload : alert).catch(error => alert)
SettleId(outcome) ==
    IF outcome = "ok" THEN <<TRUE, 0>>
    ELSE IF outcome = "status" THEN <<FALSE, 1>> ELSE <<FALSE, 1>>

RemoveAt(s, i) == SubSeq(s, 1, i - 1) \o SubSeq(s, i + 1, Len(s))

\* The promise of the i-th pending DELETE settles and its callbacks run.
SettleDelete(i, outcome) ==
    /\ i \in 1..Len(pending)
    /\ LET r == pending[i]
           eff == IF r.impl = "attr" THEN SettleAttr(outcome) ELSE SettleId(outcome)
       IN /\ pending' = RemoveAt(pending, i)
          /\ dialogs' = IF eff[2] = 1 THEN Append(dialogs, AlertDialog(r.itemType))
                        ELSE dialogs
          /\ reloadCalls' = IF eff[1] THEN reloadCalls + 1 ELSE reloadCalls
          /\ page' = IF eff[1] THEN "unloading" ELSE page
    /\ UNCHANGED <<rows, wire, nclicks, casVars, formVars>>

AllRows == {"r1", "r2"}

\* The reload that location.reload() started completes: the callbacks of the
\* old document are dropped and the server renders the page again.
PageUnload(newRows) ==
    /\ page = "unloading"
    /\ page' = "live"
    /\ pending' = <<>>
    /\ rows' = newRows
    /\ UNCHANGED <<wire, dialogs, reloadCalls, nclicks, casVars, formVars>>

\* ------------------------------------------------------------------------
\* Text
\* ------------------------------------------------------------------------
\* A text is a sequence of characters; a string literal of the source is
\* kept as one element.
Quote == "\""

ItemA == <<"a">>
ItemQ == <<"a", Quote, "b">>

RECURSIVE JoinText(_, _)
\* Array.prototype.join
JoinText(parts, sep) ==
    IF Len(parts) = 0 THEN <<>>
    ELSE IF Len(parts) = 1 THEN parts[1]
    ELSE parts[1] \o sep \o JoinText(Tail(parts), sep)

\* encodeURIComponent on one character: letters and "." are unreserved, the
\* double quote and the slash are escaped.
EncodeChar(c) ==
    CASE c = Quote -> <<"%", "2", "2">>
      [] c = "/" -> <<"%", "2", "F">>
      [] OTHER -> <<c>>

\* A variant that leaves every character as it is.
encodeURIComponent_Identity(t) == t

RECURSIVE encodeURIComponent(_)
encodeURIComponent(t) ==
    IF t = <<>> THEN <<>>
    ELSE EncodeChar(Head(t)) \o encodeURIComponent(Tail(t))

\* ------------------------------------------------------------------------
\* Select elements and their markup
\* ------------------------------------------------------------------------
SelectIds == {"catalog", "schema", "table", "column"}

Option(value, label) == [value |-> value, label |-> label]

\* The pieces of markup the binder writes around the interpolated text.
OpenTok == "<option value=\""
MidTok == "\">"
CloseTok == "</option>"

\* `<option value="${item}">${item}</option>`
OptionMarkup(item) == <<OpenTok>> \o item \o <<MidTok>> \o item \o <<CloseTok>>

\* `<option value="">${label}</option>`
PlaceholderMarkup(label) == <<OpenTok, MidTok>> \o label \o <<CloseTok>>

RECURSIVE ItemsMarkup(_)
\* items.map(item => `<option ...>`).join('')
ItemsMarkup(items) ==
    IF items = <<>> THEN <<>>
    ELSE OptionMarkup(Head(items)) \o ItemsMarkup(Tail(items))

RECURSIVE ParseMarkup(_, _, _, _)
\* The HTML parser on the markup assigned to innerHTML.  st is the parser's
\* place: "data" between options, "value" inside the quoted value attribute,
\* "tag" inside the start tag after the attribute's closing quote, "text"
\* inside the option's text.  A double quote in the interpolated item closes
\* the attribute; what follows up to the ">" is read as attribute names.
ParseMarkup(m, st, cur, acc) ==
    IF m = <<>> THEN acc
    ELSE LET c == Head(m)
             r == Tail(m)
         IN CASE st = "data" /\ c = OpenTok ->
                   ParseMarkup(r, "value", Option(<<>>, <<>>), acc)
              [] st = "value" /\ c = MidTok -> ParseMarkup(r, "text", cur, acc)
              [] st = "value" /\ c = Quote -> ParseMarkup(r, "tag", cur, acc)
              [] st = "value" /\ c # MidTok /\ c # Quote ->
                   ParseMarkup(r, "value", [cur EXCEPT !.value = @ \o <<c>>], acc)
              [] st = "tag" /\ c = MidTok -> ParseMarkup(r, "text", cur, acc)
              [] st = "tag" /\ c # MidTok -> ParseMarkup(r, "tag", cur, acc)
              [] st = "text" /\ c = CloseTok ->
                   ParseMarkup(r, "data", cur, Append(acc, cur))
              [] st = "text" /\ c # CloseTok ->
                   ParseMarkup(r, "text", [cur EXCEPT !.label = @ \o <<c>>], acc)
              [] OTHER -> ParseMarkup(r, st, cur, acc)

\* The value of a select whose options were just replaced: the first option
\* is the selected one.
FirstValue(options) == IF options = <<>> THEN <<>> ELSE options[1].value

\* el.innerHTML = markup
SetInnerHTML(s, markup) ==
    LET opts == ParseMarkup(markup, "data", Option(<<>>, <<>>), <<>>)
    IN [s EXCEPT !.options = opts, !.value = FirstValue(opts)]

RECURSIVE ItemOptions(_)
ItemOptions(items) ==
    IF items = <<>> THEN <<>>
    ELSE <<Option(Head(items), Head(items))>> \o ItemOptions(Tail(items))

\* populateSelect(selectElement, items, placeholder); iterable is FALSE for
\* a JSON value that `for (const item of items)` cannot iterate, in which
\* case the placeholder is already in place when the TypeError is thrown.
populateSelect(s, items, placeholder, iterable) ==
    LET opts == <<Option(<<>>, placeholder)>>
                  \o (IF iterable THEN ItemOptions(items) ELSE <<>>)
    IN [s EXCEPT !.options = opts, !.value = FirstValue(opts)]

\* SELECT_PLACEHOLDERS
LoadingText == <<"Loading...">>
ErrorText == <<"Error loading">>

IdPlaceholder(id) ==
    CASE id = "schema" -> <<"Select Schema...">>
      [] id = "table" -> <<"Select Table...">>
      [] OTHER -> <<"Select Column...">>

\* `Select ${id}...`
AttrPlaceholder(id) == <<"Select ", id, "...">>

Range(s) == {s[i] : i \in 1..Len(s)}

\* ------------------------------------------------------------------------
\* URI generation
\* ------------------------------------------------------------------------
UriIds == {"uri", "uri2"}

\* [data-user-ns]
userNs == <<"http://example.org/">>

\* data-uri-from and data-uri-separator of each [data-uri-from] input; an
\* empty separator stands for an absent attribute.
UriCfg(u) ==
    IF u = "uri"
    THEN [from |-> <<"catalog", "schema", "table">>, separator |-> <<>>]
    ELSE [from |-> <<"catalog", "schema">>, separator |-> <<"/">>]

\* uriInput.dataset.uriSeparator || '.'
SeparatorOf(u) ==
    IF UriCfg(u).separator = <<>> THEN <<".">> ELSE UriCfg(u).separator

\* sourceIds.map(id => document.getElementById(id)?.value).filter(Boolean)
SourceParts(u, dom) ==
    SelectSeq([i \in 1..Len(UriCfg(u).from) |-> dom[UriCfg(u).from[i]].value],
              LAMBDA v : v # <<>>)

\* A variant that writes as soon as one source field is non-empty.
updateUri_Partial(u, dom, old) ==
    IF SourceParts(u, dom) # <<>>
    THEN userNs \o encodeURIComponent(JoinText(SourceParts(u, dom), SeparatorOf(u)))
    ELSE old

\* updateUri: the new value of the URI input u, given its old value.
updateUri(u, dom, old) ==
    IF Len(SourceParts(u, dom)) = Len(UriCfg(u).from)
    THEN userNs \o encodeURIComponent(JoinText(SourceParts(u, dom), SeparatorOf(u)))
    ELSE old

\* The URI inputs whose updateUri listens for events of the given type on
\* the element: initUriGeneration registers it for 'input' on every source
\* element and for nothing else.
Listeners(el, type) ==
    IF type = "input" THEN {u \in UriIds : el \in Range(UriCfg(u).from)} ELSE {}

\* el.dispatchEvent(new Event(type)): the URI values after the listeners ran.
DispatchEvent(el, type, dom, uris) ==
    [u \in UriIds |-> IF u \in Listeners(el, type) THEN updateUri(u, dom, uris[u])
                      ELSE uris[u]]

\* document.querySelectorAll('[data-uri-from]').forEach(el =>
\*     el.dispatchEvent(new Event('recalculate')))
RecalculateAll(dom, uris) ==
    [u \in UriIds |-> DispatchEvent(u, "recalculate", dom, uris)[u]]

\* generateUriFromTableName(catalog, schema, tableName)
generateUriFromTableName(catalog, schema, tableName) ==
    IF catalog = <<>> \/ schema = <<>> \/ tableName = <<>> THEN <<>>
    ELSE userNs \o encodeURIComponent(JoinText(<<catalog, schema, tableName>>, <<".">>))

\* generateUriFromColumnName(catalog, schema, table, column)
generateUriFromColumnName(catalog, schema, table, column) ==
    IF catalog = <<>> \/ schema = <<>> \/ table = <<>> \/ column = <<>> THEN <<>>
    ELSE userNs \o encodeURIComponent(
             JoinText(<<catalog, schema, table, column>>, <<".">>))

\* updateUriFromSelection
updateUriFromSelection(dom, uris) ==
    [uris EXCEPT !["uri"] =
        IF dom["column"].value # <<>>
        THEN generateUriFromColumnName(dom["catalog"].value, dom["schema"].value,
                                       dom["table"].value, dom["column"].value)
        ELSE generateUriFromTableName(dom["catalog"].value, dom["schema"].value,
                                      dom["table"].value)]

\* ------------------------------------------------------------------------
\* Cascade selects: attribute-driven binder
\* ------------------------------------------------------------------------
Lit(t) == [ref |-> FALSE, text |-> <<t>>]
Ref(id) == [ref |-> TRUE, text |-> <<id>>]

\* data-cascade (split at '/'), data-resets (split at ',') and data-enables
\* of each [data-cascade] select; an empty enables stands for an absent one.
\* The table select is the last of the chain: it resets the column select
\* and populates nothing.
CascadeCfg(id) ==
    CASE id = "catalog" ->
           [cascade |-> <<[ref |-> FALSE, text |-> <<>>], Lit("api"), Lit("schemas"),
                          Ref("catalog")>>,
            resets |-> <<"schema", "table", "column">>, enables |-> "schema"]
      [] id = "schema" ->
           [cascade |-> <<[ref |-> FALSE, text |-> <<>>], Lit("api"), Lit("tables"),
                          Ref("catalog"), Ref("schema")>>,
            resets |-> <<"table", "column">>, enables |-> "table"]
      [] id = "table" ->
           [cascade |-> <<>>, resets |-> <<"column">>, enables |-> ""]
      [] OTHER ->
           [cascade |-> <<>>, resets |-> <<>>, enables |-> ""]

\* apiPath.split('/').map(part => part.startsWith(':') ? value : part).join('/')
BuildUrl(id, dom) ==
    LET path == CascadeCfg(id).cascade
    IN JoinText([i \in 1..Len(path) |->
                    IF path[i].ref THEN dom[path[i].text[1]].value ELSE path[i].text],
                <<"/">>)

\* A variant of the reset without `el.disabled = true`.
ResetDependents_KeepEnabled(dom, resets) ==
    [id \in SelectIds |->
        IF id \in Range(resets)
        THEN SetInnerHTML(dom[id], PlaceholderMarkup(AttrPlaceholder(id)))
        ELSE dom[id]]

\* resets.forEach(id => { el.innerHTML = placeholder; el.disabled = true })
ResetDependents(dom, resets) ==
    [id \in SelectIds |->
        IF id \in Range(resets)
        THEN [SetInnerHTML(dom[id], PlaceholderMarkup(AttrPlaceholder(id)))
                EXCEPT !.disabled = TRUE]
        ELSE dom[id]]

\* A variant of the guard without the test of select.value.
AttrShouldFetch_IgnoreEmpty(id, dom) == CascadeCfg(id).enables # ""

\* The negation of `if (!select.value || !targetSelect) return;`
AttrShouldFetch(id, dom) == dom[id].value # <<>> /\ CascadeCfg(id).enables # ""

\* The change listener of initCascadeSelects up to its await: the result is
\* the DOM, the URI values and the requests issued (none or one).
AttrChange(id, dom, uris) ==
    LET cfg == CascadeCfg(id)
        d1 == ResetDependents(dom, cfg.resets)
        u1 == RecalculateAll(d1, uris)
    IN IF ~AttrShouldFetch(id, d1)
       THEN [dom |-> d1, uris |-> u1, reqs |-> <<>>]
       ELSE [dom |-> [d1 EXCEPT ![cfg.enables] =
                         SetInnerHTML(@, PlaceholderMarkup(LoadingText))],
             uris |-> u1,
             reqs |-> <<[fn |-> "attr", target |-> cfg.enables,
                         url |-> BuildUrl(id, d1)]>>]

\* What a GET can come back with: no response at all, or a response with a
\* status (ok or not) and a body that is not JSON, is JSON but no array, or
\* is a JSON array of items.
ItemLists == {<<>>, <<ItemA>>, <<ItemA, ItemQ>>}

NetworkError ==
    [kind |-> "network", ok |-> FALSE, json |-> FALSE, array |-> FALSE, items |-> <<>>]

HttpResponse(ok, json, array, items) ==
    [kind |-> "http", ok |-> ok, json |-> json, array |-> array, items |-> items]

Responses ==
    {NetworkError}
      \cup {HttpResponse(ok, FALSE, FALSE, <<>>) : ok \in BOOLEAN}
      \cup {HttpResponse(ok, TRUE, FALSE, <<>>) : ok \in BOOLEAN}
      \cup {HttpResponse(ok, TRUE, TRUE, l) : ok \in BOOLEAN, l \in ItemLists}

\* fetch(url).then(r => r.json()) fulfils: a response arrived and its body
\* parsed as JSON.  The status is not looked at.
JsonArrives(resp) == resp.kind = "http" /\ resp.json

\* The continuation of the change listener after its await, on the target.
AttrSettle(s, target, resp) ==
    IF JsonArrives(resp) /\ resp.array
    THEN [SetInnerHTML(s, PlaceholderMarkup(AttrPlaceholder(target))
                            \o ItemsMarkup(resp.items))
            EXCEPT !.disabled = FALSE]
    ELSE SetInnerHTML(s, PlaceholderMarkup(ErrorText))

\* ------------------------------------------------------------------------
\* Cascade selects: id-based functions
\* ------------------------------------------------------------------------

\* loadSchemas() up to its await
loadSchemas(dom, uris) ==
    LET d1 == [dom EXCEPT
                 !["schema"] = populateSelect(@, <<>>, LoadingText, TRUE),
                 !["table"] = [populateSelect(@, <<>>, IdPlaceholder("table"), TRUE)
                                 EXCEPT !.disabled = TRUE],
                 !["column"] = [populateSelect(@, <<>>, IdPlaceholder("column"), TRUE)
                                  EXCEPT !.disabled = TRUE]]
        u1 == updateUriFromSelection(d1, uris)
    IN IF d1["catalog"].value = <<>>
       THEN [dom |-> [d1 EXCEPT !["schema"] =
                         [populateSelect(@, <<>>, IdPlaceholder("schema"), TRUE)
                            EXCEPT !.disabled = TRUE]],
             uris |-> u1, reqs |-> <<>>]
       ELSE [dom |-> d1, uris |-> u1,
             reqs |-> <<[fn |-> "loadSchemas", target |-> "schema",
                         url |-> <<"/api/schemas/">> \o dom["catalog"].value]>>]

\* loadTables() up to its await
loadTables(dom, uris) ==
    LET d1 == [dom EXCEPT
                 !["column"] = [populateSelect(@, <<>>, IdPlaceholder("column"), TRUE)
                                  EXCEPT !.disabled = TRUE]]
    IN IF dom["schema"].value = <<>>
       THEN LET d2 == [d1 EXCEPT !["table"] =
                          [populateSelect(@, <<>>, IdPlaceholder("table"), TRUE)
                             EXCEPT !.disabled = TRUE]]
            IN [dom |-> d2, uris |-> updateUriFromSelection(d2, uris), reqs |-> <<>>]
       ELSE [dom |-> [d1 EXCEPT !["table"] = populateSelect(@, <<>>, LoadingText, TRUE)],
             uris |-> uris,
             reqs |-> <<[fn |-> "loadTables", target |-> "table",
                         url |-> <<"/api/tables/">> \o dom["catalog"].value
                                   \o <<"/">> \o dom["schema"].value]>>]

\* loadColumns() up to its await
loadColumns(dom, uris) ==
    IF dom["table"].value = <<>>
    THEN LET d2 == [dom EXCEPT !["column"] =
                       [populateSelect(@, <<>>, IdPlaceholder("column"), TRUE)
                          EXCEPT !.disabled = TRUE]]
         IN [dom |-> d2, uris |-> updateUriFromSelection(d2, uris), reqs |-> <<>>]
    ELSE [dom |-> [dom EXCEPT !["column"] = populateSelect(@, <<>>, LoadingText, TRUE)],
          uris |-> uris,
          reqs |-> <<[fn |-> "loadColumns", target |-> "column",
                      url |-> <<"/api/columns/">> \o dom["catalog"].value
                                \o <<"/">> \o dom["schema"].value
                                \o <<"/">> \o dom["table"].value]>>]

\* The onchange handler of each select of an id-based page.
IdChange(id, dom, uris) ==
    CASE id = "catalog" -> loadSchemas(dom, uris)
      [] id = "schema" -> loadTables(dom, uris)
      [] id = "table" -> loadColumns(dom, uris)
      [] OTHER -> [dom |-> dom, uris |-> updateUriFromSelection(dom, uris),
                   reqs |-> <<>>]

\* The continuation of loadSchemas / loadTables / loadColumns after the
\* await.  When the promise rejects nothing runs: there is no catch.
IdSettle(fn, dom, uris, resp) ==
    LET target == CASE fn = "loadSchemas" -> "schema"
                    [] fn = "loadTables" -> "table"
                    [] OTHER -> "column"
    IN IF ~JsonArrives(resp) THEN [dom |-> dom, uris |-> uris]
       ELSE IF ~resp.array
       THEN [dom |-> [dom EXCEPT ![target] =
                         populateSelect(@, <<>>, IdPlaceholder(target), FALSE)],
             uris |-> uris]
       ELSE LET d1 == [dom EXCEPT ![target] =
                          [populateSelect(@, resp.items, IdPlaceholder(target), TRUE)
                             EXCEPT !.disabled = FALSE]]
            IN [dom |-> d1,
                uris |-> IF fn = "loadSchemas" THEN uris
                         ELSE updateUriFromSelection(d1, uris)]

\* ------------------------------------------------------------------------
\* Cascade pages: events
\* ------------------------------------------------------------------------
OptionValues(s) == {s.options[i].value : i \in 1..Len(s.options)}

Issue(reqs) ==
    /\ nfetch + Len(reqs) <= MaxFetch
    /\ nfetch' = nfetch + Len(reqs)
    /\ fetches' = fetches \o [i \in 1..Len(reqs) |->
                                [id |-> nfetch + i, fn |-> reqs[i].fn,
                                 target |-> reqs[i].target, url |-> reqs[i].url]]

\* The user picks another option of an enabled select of an attribute-driven
\* page: the value changes, the select's input event runs the updateUri
\* listeners registered on it, then its change event runs the cascade.
AttrSelect(id, v) ==
    /\ impl = "attr"
    /\ ~sel[id].disabled
    /\ v \in OptionValues(sel[id]) \ {sel[id].value}
    /\ LET d0 == [sel EXCEPT ![id].value = v]
           u0 == DispatchEvent(id, "input", d0, uri)
           out == AttrChange(id, d0, u0)
       IN /\ sel' = out.dom
          /\ uri' = out.uris
          /\ Issue(out.reqs)
    /\ UNCHANGED <<lastSettled, impl, delVars, formVars>>

\* The same on an id-based page, whose selects call loadSchemas, loadTables,
\* loadColumns and updateUriFromSelection.
IdSelect(id, v) ==
    /\ impl = "id"
    /\ ~sel[id].disabled
    /\ v \in OptionValues(sel[id]) \ {sel[id].value}
    /\ LET out == IdChange(id, [sel EXCEPT ![id].value = v], uri)
       IN /\ sel' = out.dom
          /\ uri' = out.uris
          /\ Issue(out.reqs)
    /\ UNCHANGED <<lastSettled, impl, delVars, formVars>>

\* A variant with a sequence guard: a response is dropped when a later
\* request for the same target is still outstanding.
SettleFetch_DropStale(i, resp) ==
    /\ i \in 1..Len(fetches)
    /\ LET r == fetches[i]
           stale == \E j \in (i + 1)..Len(fetches) : fetches[j].target = r.target
       IN /\ fetches' = RemoveAt(fetches, i)
          /\ lastSettled' = [id |-> r.id, fn |-> r.fn, target |-> r.target,
                             resp |-> resp]
          /\ IF stale
             THEN UNCHANGED <<sel, uri>>
             ELSE IF r.fn = "attr"
             THEN /\ sel' = [sel EXCEPT ![r.target] = AttrSettle(@, r.target, resp)]
                  /\ uri' = uri
             ELSE /\ sel' = IdSettle(r.fn, sel, uri, resp).dom
                  /\ uri' = IdSettle(r.fn, sel, uri, resp).uris
    /\ UNCHANGED <<nfetch, impl, delVars, formVars>>

\* The promise of the i-th outstanding GET settles.
SettleFetch(i, resp) ==
    /\ i \in 1..Len(fetches)
    /\ LET r == fetches[i]
       IN /\ fetches' = RemoveAt(fetches, i)
          /\ lastSettled' = [id |-> r.id, fn |-> r.fn, target |-> r.target,
                             resp |-> resp]
          /\ IF r.fn = "attr"
             THEN /\ sel' = [sel EXCEPT ![r.target] = AttrSettle(@, r.target, resp)]
                  /\ uri' = uri
             ELSE /\ sel' = IdSettle(r.fn, sel, uri, resp).dom
                  /\ uri' = IdSettle(r.fn, sel, uri, resp).uris
    /\ UNCHANGED <<nfetch, impl, delVars, formVars>>

HandText == <<"x">>

\* The user types into a URI input; nothing listens to it.
EditUri(u) ==
    /\ uri[u] # HandText
    /\ uri' = [uri EXCEPT ![u] = HandText]
    /\ UNCHANGED <<sel, fetches, nfetch, lastSettled, impl, delVars, formVars>>

\* The page as the server renders it: the catalogs are listed, the
\* dependent selects are empty and disabled, the URI inputs are empty.
InitialSelect(id) ==
    IF id = "catalog"
    THEN [options |-> <<Option(<<>>, <<"Select Catalog...">>), Option(ItemA, ItemA),
                        Option(ItemQ, ItemQ)>>,
          disabled |-> FALSE, value |-> <<>>]
    ELSE [options |-> <<Option(<<>>, <<"Select...">>)>>, disabled |-> TRUE,
          value |-> <<>>]

NoFetch == [id |-> 0, fn |-> "", target |-> "", resp |-> NetworkError]

CascadeIdle ==
    /\ sel = [id \in SelectIds |-> InitialSelect(id)]
    /\ uri = [u \in UriIds |-> <<>>]
    /\ fetches = <<>>
    /\ nfetch = 0
    /\ lastSettled = NoFetch

DeleteIdle ==
    /\ rows = AllRows
    /\ pending = <<>>
    /\ wire = <<>>
    /\ dialogs = <<>>
    /\ reloadCalls = 0
    /\ page = "live"
    /\ nclicks = 0

\* ------------------------------------------------------------------------
\* Alternative labels: the repeatable field list
\* ------------------------------------------------------------------------
MaxAdds == 2

StartCounts == 0..2

ContainerIds == {"alt_labels_container", "missing"}

\* The div.alt-label-field both implementations build: a required text input
\* named alt_labels and a remove button.  key stands for the node's identity;
\* remove is the way the button is wired ("data-remove-field" in the binder,
\* "onclick" in addAltLabelField).
AltLabelField(key, wiring) ==
    [key |-> key, className |-> "alt-label-field",
     input |-> [type |-> "text", name |-> "alt_labels", required |-> TRUE],
     remove |-> wiring]

\* createAltLabelField of the attribute-driven binder
createAltLabelField(key) == AltLabelField(key, "data-remove-field")

\* document.getElementById(containerId): only the real container is found.
ContainerFound(containerId) == containerId = "alt_labels_container"

\* The rows the server rendered for the labels the item already has, with the
\* remove wiring of the page's implementation.
ServerRows(n, via) ==
    [k \in 1..n |-> AltLabelField(k, IF via = "attr" THEN "data-remove-field"
                                                     ELSE "onclick")]

NewKey == startCount + nAdd + 1

\* A click on a [data-add-alt-label] button whose attribute names containerId.
AddAltLabelClick(containerId) ==
    /\ impl = "attr"
    /\ nAdd < MaxAdds
    /\ containerId \in ContainerIds
    /\ IF ContainerFound(containerId)
       THEN /\ container' = Append(container, createAltLabelField(NewKey))
            /\ nAdd' = nAdd + 1
       ELSE UNCHANGED <<container, nAdd>>
    /\ threw' = FALSE
    /\ UNCHANGED <<labelInput, startCount, nRemove, clicked, query, list, listExists,
                   delVars, casVars>>

\* addAltLabelField(containerId); "" stands for a call without argument.
addAltLabelField(containerId) ==
    /\ impl = "id"
    /\ nAdd < MaxAdds
    /\ containerId \in ContainerIds \cup {""}
    /\ LET target == IF containerId = "" THEN "alt_labels_container"
                     ELSE containerId
       IN IF ContainerFound(target)
          THEN /\ container' = Append(container, AltLabelField(NewKey, "onclick"))
               /\ nAdd' = nAdd + 1
          ELSE UNCHANGED <<container, nAdd>>
    /\ threw' = FALSE
    /\ UNCHANGED <<labelInput, startCount, nRemove, clicked, query, list, listExists,
                   delVars, casVars>>

\* removeBtn.closest('.alt-label-field')?.remove() and
\* button.parentElement.remove(): the row holding the clicked button leaves
\* the container.
RemoveRow_KeepLast(rws, i) == IF Len(rws) = 1 THEN rws ELSE RemoveAt(rws, i)

RemoveRow(rws, i) == RemoveAt(rws, i)

\* A click on the remove control of the i-th row.  The binder handles the
\* buttons carrying data-remove-field, removeAltLabelField runs from onclick.
RemoveAltLabelClick(i) ==
    /\ i \in 1..Len(container)
    /\ container[i].remove = IF impl = "attr" THEN "data-remove-field" ELSE "onclick"
    /\ clicked' = container[i].key
    /\ container' = RemoveRow(container, i)
    /\ nRemove' = nRemove + 1
    /\ threw' = FALSE
    /\ UNCHANGED <<labelInput, startCount, nAdd, query, list, listExists,
                   delVars, casVars>>

\* ------------------------------------------------------------------------
\* List filtering
\* ------------------------------------------------------------------------
\* String.prototype.toUpperCase on the letters the lists and queries use.
UpperChar(c) ==
    CASE c = "a" -> "A"
      [] c = "b" -> "B"
      [] OTHER -> c

toUpperCase(t) == [i \in 1..Len(t) |-> UpperChar(t[i])]

\* String.prototype.indexOf counted from 0; -1 when needle does not occur.
indexOf(t, needle) ==
    LET at == {i \in 0..(Len(t) - Len(needle)) :
                   SubSeq(t, i + 1, i + Len(needle)) = needle}
    IN IF at = {} THEN -1 ELSE CHOOSE i \in at : \A j \in at : i <= j

\* String.prototype.includes
includes(t, needle) ==
    \E i \in 0..(Len(t) - Len(needle)) : SubSeq(t, i + 1, i + Len(needle)) = needle

\* A descendant element of a list child: its tag, whether it carries the
\* page's searchable mark (data-searchable in the attribute-driven pages,
\* class "searchable" in the id-based ones) and its text content.
Element(tag, marked, text) == [tag |-> tag, marked |-> marked, text |-> text]

Child(els) == [els |-> els, hidden |-> FALSE]

TwoMarked == Child(<<Element("span", TRUE, <<"a">>), Element("span", TRUE, <<"b">>)>>)
SpansOnly == Child(<<Element("span", FALSE, <<"a">>), Element("strong", FALSE, <<"b">>)>>)
Mixed == Child(<<Element("strong", TRUE, <<"b">>), Element("span", FALSE, <<"a">>)>>)
Bare == Child(<<>>)

Lists == {<<>>, <<TwoMarked, SpansOnly>>, <<Mixed, Bare, TwoMarked>>, <<SpansOnly, Mixed>>}

Queries == {<<>>, <<"a">>, <<"A", "b">>, <<"a", " ", "b">>, <<" ", "a">>}

Texts(els) == [i \in 1..Len(els) |-> els[i].text]

\* item.querySelector('[data-searchable]') ? all [data-searchable] : all span
Searchable(item) ==
    IF \E i \in 1..Len(item.els) : item.els[i].marked
    THEN SelectSeq(item.els, LAMBDA e : e.marked)
    ELSE SelectSeq(item.els, LAMBDA e : e.tag = "span")

\* The filter closure of initFiltering applied to one child.
AttrFilterItem(item, q) ==
    LET text == toUpperCase(JoinText(Texts(Searchable(item)), <<" ">>))
    IN [item EXCEPT !.hidden = ~includes(text, q)]

RECURSIVE ClassText(_)
\* txt += spans[j].textContent over getElementsByClassName(searchableClass)
ClassText(els) ==
    IF els = <<>> THEN <<>>
    ELSE (IF Head(els).marked THEN Head(els).text ELSE <<>>) \o ClassText(Tail(els))

RECURSIVE SpanText(_)
\* txt += ' ' + spans[j].textContent over getElementsByTagName('span')
SpanText(els) ==
    IF els = <<>> THEN <<>>
    ELSE (IF Head(els).tag = "span" THEN <<" ">> \o Head(els).text ELSE <<>>)
         \o SpanText(Tail(els))

\* The body of filterList's loop for one child; style.display "none" is the
\* child's hidden flag.
IdFilterItem(item, filter, searchableClass) ==
    LET txt == IF searchableClass # "" THEN ClassText(item.els)
               ELSE SpanText(item.els)
    IN [item EXCEPT !.hidden = ~(indexOf(toUpperCase(txt), filter) > -1)]

\* The user edits the [data-filter-for] input: the input event runs the
\* filter closure, which initFiltering bound only when the list was found.
FilterInput(v) ==
    /\ impl = "attr"
    /\ v # query
    /\ query' = v
    /\ list' = IF listExists
               THEN [i \in 1..Len(list) |-> AttrFilterItem(list[i], toUpperCase(v))]
               ELSE list
    /\ threw' = FALSE
    /\ UNCHANGED <<labelInput, container, startCount, nAdd, nRemove, clicked,
                   listExists, delVars, casVars>>

\* The user edits the search input of an id-based page and its handler calls
\* filterList: filter_concepts and filter_properties pass no class,
\* filter_tables and filter_columns pass 'searchable'.  Without the list,
\* ul is null and ul.children throws a TypeError.
filterList(v, searchableClass) ==
    /\ impl = "id"
    /\ v # query
    /\ query' = v
    /\ IF listExists
       THEN /\ list' = [i \in 1..Len(list) |->
                           IdFilterItem(list[i], toUpperCase(v), searchableClass)]
            /\ threw' = FALSE
       ELSE /\ list' = list
            /\ threw' = TRUE
    /\ UNCHANGED <<labelInput, container, startCount, nAdd, nRemove, clicked,
                   listExists, delVars, casVars>>

\* ------------------------------------------------------------------------
\* The label input of the concept form (id-based)
\* ------------------------------------------------------------------------
\* generate_uri_from_label(label)
generate_uri_from_label(lbl) ==
    IF lbl = <<>> THEN <<>> ELSE userNs \o encodeURIComponent(lbl)

Labels == {<<>>, ItemA, ItemQ}

\* update_uri_from_label, run when the user edits the label input.
update_uri_from_label(v) ==
    /\ impl = "id"
    /\ v \in Labels \ {labelInput}
    /\ labelInput' = v
    /\ uri' = [uri EXCEPT !["uri"] = generate_uri_from_label(v)]
    /\ threw' = FALSE
    /\ UNCHANGED <<container, startCount, nAdd, nRemove, clicked, query, list,
                   listExists, sel, fetches, nfetch, lastSettled, impl, delVars>>

\* The form pages as loaded: no click yet, an empty filter, nothing hidden.
FormIdle ==
    /\ labelInput = <<>>
    /\ container = <<>>
    /\ startCount = 0
    /\ nAdd = 0
    /\ nRemove = 0
    /\ clicked = 0
    /\ query = <<>>
    /\ list = <<>>
    /\ listExists = TRUE
    /\ threw = FALSE

\* ------------------------------------------------------------------------
\* Specifications
\* ------------------------------------------------------------------------
InitDelete == DeleteIdle /\ CascadeIdle /\ FormIdle /\ impl = "attr"

NextDelete ==
    \/ \E b \in Buttons, answer \in BOOLEAN : ClickDelete(b, answer)
    \/ \E k \in ItemKinds, answer \in BOOLEAN : deleteItem("u1", k, answer)
    \/ \E answer \in BOOLEAN : delete_relationship("s1", "o1", answer)
    \/ \E i \in 1..MaxClicks, o \in Outcomes : SettleDelete(i, o)
    \/ \E nr \in SUBSET AllRows : PageUnload(nr)

SpecDelete == InitDelete /\ [][NextDelete]_vars

InitCascade == DeleteIdle /\ CascadeIdle /\ FormIdle /\ impl \in {"attr", "id"}

NextCascade ==
    \/ \E id \in SelectIds, v \in {<<>>, ItemA, ItemQ} : AttrSelect(id, v)
    \/ \E id \in SelectIds, v \in {<<>>, ItemA, ItemQ} : IdSelect(id, v)
    \/ \E i \in 1..MaxFetch, resp \in Responses : SettleFetch(i, resp)
    \/ \E u \in UriIds : EditUri(u)

SpecCascade == InitCascade /\ [][NextCascade]_vars

\* A form page of either implementation: the alt-label container with the
\* rows the server rendered, and a filter input whose list may be absent.
InitForm ==
    /\ DeleteIdle /\ CascadeIdle
    /\ impl \in {"attr", "id"}
    /\ labelInput = <<>>
    /\ startCount \in StartCounts
    /\ container = ServerRows(startCount, impl)
    /\ nAdd = 0 /\ nRemove = 0 /\ clicked = 0
    /\ query = <<>>
    /\ listExists \in BOOLEAN
    /\ list \in (IF listExists THEN Lists ELSE {<<>>})
    /\ threw = FALSE

NextForm ==
    \/ \E c \in ContainerIds : AddAltLabelClick(c)
    \/ \E c \in ContainerIds \cup {""} : addAltLabelField(c)
    \/ \E i \in 1..Len(container) : RemoveAltLabelClick(i)
    \/ \E v \in Queries : FilterInput(v)
    \/ \E v \in Queries, cls \in {"", "searchable"} : filterList(v, cls)
    \/ \E v \in Labels : update_uri_from_label(v)

SpecForm == InitForm /\ [][NextForm]_vars

\* ------------------------------------------------------------------------
\* Delete operations: properties
\* ------------------------------------------------------------------------
Last(s) == s[Len(s)]

\* A confirm() was shown in this step and got the given answer.
ConfirmAnswered(answer) ==
    /\ Len(dialogs') = Len(dialogs) + 1
    /\ Last(dialogs').kind = "confirm"
    /\ Last(dialogs').answer = answer

ConfirmedCount ==
    Cardinality({i \in 1..Len(dialogs) :
                    dialogs[i].kind = "confirm" /\ dialogs[i].answer})

\* C1: a click whose confirmation dialog is declined issues no network
\* request and changes nothing else of the page, in the attribute-driven
\* click handler and in deleteItem / delete_relationship alike.
C1_DeclineIssuesNothing ==
    [][ConfirmAnswered(FALSE) =>
          /\ wire' = wire
          /\ pending' = pending
          /\ rows' = rows
          /\ reloadCalls' = reloadCalls
          /\ page' = page]_vars

C1_Witness ==
    /\ Len(dialogs) >= 2
    /\ dialogs[1].kind = "confirm" /\ ~dialogs[1].answer
    /\ dialogs[1].itemType = "item"
    /\ dialogs[2].kind = "confirm" /\ ~dialogs[2].answer
    /\ dialogs[2].itemType = "column"
    /\ wire = <<>>

\* The payload the claim describes: the declared fields of the control other
\* than url, type and the delete marker, as a set of key/value pairs.
DeclaredFields(b) ==
    {<<k, Dataset(b)[k]>> : k \in {x \in DOMAIN Dataset(b) :
                                     x # "url" /\ x # "type" /\ x # "delete"}}

FieldsOf(body) == {<<k, body[k]>> : k \in DOMAIN body}

\* C2: every confirmed click on a delete control issues exactly one DELETE
\* to the control's url whose body is the control's declared fields other
\* than url, type and delete; k confirmed clicks issue k requests, whether
\* or not earlier requests have settled.
C2_ConfirmIssuesOneDelete ==
    /\ [](Len(wire) = ConfirmedCount)
    /\ [][ConfirmAnswered(TRUE) =>
            /\ Len(wire') = Len(wire) + 1
            /\ Len(pending') = Len(pending) + 1
            /\ Last(wire').method = "DELETE"
            /\ \A b \in Buttons :
                 ClickDelete(b, TRUE) =>
                     /\ Last(wire').url = Dataset(b)["url"]
                     /\ FieldsOf(Last(wire').body) = DeclaredFields(b)]_vars

C2_Witness ==
    /\ Len(wire) = 3
    /\ Len(pending) = 3
    /\ wire[1].url = "/relationships/delete"
    /\ FieldsOf(wire[1].body) = {<<"subject_uri", "s1">>, <<"predicate_type", "broader">>,
                                 <<"object_uri", "o1">>}
    /\ wire[2] = wire[1]
    /\ wire[3].url = "/items/delete" /\ FieldsOf(wire[3].body) = {}
    /\ pending[1].impl = "attr"

\* C3: a 2xx response reloads the page and shows no alert; any other status
\* or a network failure shows exactly one alert naming the item kind, does
\* not reload, removes nothing from the page and issues no further request.
C3_DeleteOutcome ==
    [][\A i \in 1..Len(pending), o \in Outcomes :
          SettleDelete(i, o) =>
              /\ o = "ok" => /\ reloadCalls' = reloadCalls + 1
                             /\ dialogs' = dialogs
              /\ o # "ok" => /\ dialogs' = Append(dialogs, AlertDialog(pending[i].itemType))
                             /\ reloadCalls' = reloadCalls
                             /\ page' = page
              /\ rows' = rows
              /\ wire' = wire]_vars

C3_Witness ==
    /\ Len(dialogs) = 5
    /\ dialogs[4] = AlertDialog("relationship")
    /\ dialogs[5] = AlertDialog("item")
    /\ reloadCalls = 1
    /\ page = "unloading"
    /\ rows = AllRows
    /\ Len(wire) = 3

\* ------------------------------------------------------------------------
\* URI composer and cascade selects: properties
\* ------------------------------------------------------------------------

\* Percent-encoding as the claims state it: unreserved characters stand for
\* themselves, any other character becomes "%" and its two hex digits.
PercentEncoded(t) ==
    LET Escaped(c) == IF c \in {"a", "b", "."} THEN <<c>>
                      ELSE IF c = Quote THEN <<"%", "2", "2">>
                      ELSE <<"%", "2", "F">>
        F[i \in 0..Len(t)] == IF i = 0 THEN <<>> ELSE F[i - 1] \o Escaped(t[i])
    IN F[Len(t)]

SourceValues(u, dom) ==
    [i \in 1..Len(UriCfg(u).from) |-> dom[UriCfg(u).from[i]].value]

AllSourcesFilled(u, dom) ==
    \A i \in 1..Len(UriCfg(u).from) : dom[UriCfg(u).from[i]].value # <<>>

ConfiguredSeparator(u) == IF u = "uri2" THEN <<"/">> ELSE <<".">>

Joined(vals, sep) ==
    LET F[i \in 0..Len(vals)] ==
            IF i = 0 THEN <<>>
            ELSE IF i = 1 THEN vals[1] ELSE F[i - 1] \o sep \o vals[i]
    IN F[Len(vals)]

ComposedUri(u, dom) ==
    userNs \o PercentEncoded(Joined(SourceValues(u, dom), ConfiguredSeparator(u)))

\* C4: on an input event of a source field the attribute-driven composer
\* writes the target if and only if every source field is non-empty at that
\* moment; the written value is the namespace followed by the percent-encoded
\* join of the source values in configured order with the separator
\* (default "."); otherwise the target keeps its previous value.
C4_UriWrittenIffAllSources ==
    [][\A id \in SelectIds, v \in {<<>>, ItemA, ItemQ} :
          AttrSelect(id, v) =>
             LET atEvent == [sel EXCEPT ![id].value = v]
             IN \A u \in UriIds :
                  id \in Range(UriCfg(u).from) =>
                     uri'[u] = IF AllSourcesFilled(u, atEvent)
                               THEN ComposedUri(u, atEvent)
                               ELSE uri[u]]_vars

C4_Witness ==
    /\ impl = "attr"
    /\ sel["catalog"].value = ItemQ
    /\ sel["schema"].value = ItemA
    /\ sel["table"].value = <<>>
    /\ uri["uri2"] = userNs \o <<"a", "%", "2", "2", "b", "%", "2", "F", "a">>
    /\ uri["uri"] = HandText

Cleared(s) == Len(s.options) = 1 /\ s.options[1].value = <<>>

\* The selects below the one that changed, which the id-based functions
\* reset before they fetch.
IdResets(id) ==
    CASE id = "catalog" -> {"table", "column"}
      [] id = "schema" -> {"column"}
      [] OTHER -> {}

\* C5: when a change event issues its GET, every element of the select's
\* reset list has already been cleared to a single empty-valued placeholder
\* option and disabled.
C5_ResetBeforeRequest ==
    [][\A id \in SelectIds, v \in {<<>>, ItemA, ItemQ} :
          /\ (AttrSelect(id, v) /\ nfetch' = nfetch + 1) =>
                \A d \in Range(CascadeCfg(id).resets) :
                    Cleared(sel'[d]) /\ sel'[d].disabled
          /\ (IdSelect(id, v) /\ nfetch' = nfetch + 1) =>
                \A d \in IdResets(id) : Cleared(sel'[d]) /\ sel'[d].disabled]_vars

C5_Witness ==
    /\ impl = "attr"
    /\ nfetch = 2
    /\ Len(fetches) = 1
    /\ fetches[1].id = 2
    /\ fetches[1].target = "schema"
    /\ lastSettled.id = 1
    /\ lastSettled.resp.array
    /\ Len(lastSettled.resp.items) = 2
    /\ Cleared(sel["schema"]) /\ sel["schema"].disabled
    /\ Cleared(sel["table"]) /\ sel["table"].disabled

OnlyPlaceholder(s, label) == s.options = <<Option(<<>>, label)>>

\* C6: after a cascade fetch fails, the target select is disabled and holds
\* only an error placeholder option, in the attribute-driven handler and in
\* loadSchemas / loadTables / loadColumns.
C6_FailedFetchLeavesErrorDisabled ==
    [][\A i \in 1..Len(fetches) :
          SettleFetch(i, NetworkError) =>
              /\ sel'[fetches[i].target].disabled
              /\ OnlyPlaceholder(sel'[fetches[i].target], ErrorText)]_vars

OptionLabels(s) == [i \in 1..Len(s.options) |-> s.options[i].label]

IsPrefix(a, b) == Len(a) <= Len(b) /\ SubSeq(b, 1, Len(a)) = a

\* C7: overlapping requests of a select all stay outstanding, none is
\* cancelled; each response that carries a list overwrites the target's
\* options when it arrives, so the target holds the items of the response
\* that arrived last, whatever the order of the requests.
C7_LastArrivalWins ==
    [][/\ \A i \in 1..Len(fetches), resp \in Responses :
            SettleFetch(i, resp) =>
               /\ fetches' = RemoveAt(fetches, i)
               /\ (JsonArrives(resp) /\ resp.array) =>
                     Tail(OptionLabels(sel'[fetches[i].target])) = resp.items
       /\ \A id \in SelectIds, v \in {<<>>, ItemA, ItemQ} :
            (AttrSelect(id, v) \/ IdSelect(id, v)) => IsPrefix(fetches, fetches')]_vars

C7_Witness ==
    /\ nfetch = 2
    /\ fetches = <<>>
    /\ lastSettled.id = 1
    /\ lastSettled.target = "schema"
    /\ lastSettled.resp.items = <<ItemA, ItemQ>>
    /\ sel["catalog"].value = ItemA
    /\ Tail(OptionLabels(sel["schema"])) = <<ItemA, ItemQ>>
    /\ ~sel["schema"].disabled

\* C8: after a change event on a cascade select every URI input whose source
\* fields are all non-empty holds the namespace followed by the
\* percent-encoded join of the current source values.
C8_ChangeRecomputesUri ==
    [][\A id \in SelectIds, v \in {<<>>, ItemA, ItemQ} :
          AttrSelect(id, v) =>
              \A u \in UriIds :
                  AllSourcesFilled(u, sel') => uri'[u] = ComposedUri(u, sel')]_vars

\* The selects the id-based functions leave disabled when the value is empty.
IdDependents(id) ==
    CASE id = "catalog" -> {"schema", "table", "column"}
      [] id = "schema" -> {"table", "column"}
      [] id = "table" -> {"column"}
      [] OTHER -> {}

\* C9: a change to the empty value, or on a select with nothing to populate,
\* issues no GET and leaves every element of the reset list disabled with
\* only its placeholder option.
C9_EmptyValueStops ==
    [][\A id \in SelectIds, v \in {<<>>, ItemA, ItemQ} :
          /\ (AttrSelect(id, v) /\ (v = <<>> \/ CascadeCfg(id).enables = "")) =>
                /\ nfetch' = nfetch
                /\ fetches' = fetches
                /\ \A d \in Range(CascadeCfg(id).resets) :
                      /\ sel'[d].disabled
                      /\ OnlyPlaceholder(sel'[d], AttrPlaceholder(d))
          /\ (IdSelect(id, v) /\ v = <<>>) =>
                /\ nfetch' = nfetch
                /\ fetches' = fetches
                /\ \A d \in IdDependents(id) :
                      /\ sel'[d].disabled
                      /\ OnlyPlaceholder(sel'[d], IdPlaceholder(d))]_vars

C9_Witness ==
    /\ impl = "attr"
    /\ sel["catalog"].value = <<>>
    /\ nfetch = 1
    /\ fetches = <<>>
    /\ lastSettled.id = 1
    /\ lastSettled.resp.items = <<ItemA>>
    /\ sel["schema"].disabled
    /\ OnlyPlaceholder(sel["schema"], AttrPlaceholder("schema"))
    /\ uri["uri2"] # <<>>

\* C10: when a cascade fetch succeeds with a list of items, the target holds
\* one empty-valued placeholder option followed by one option per item in
\* returned order, each with value = label = the item, and is enabled.
C10_SuccessPopulates ==
    [][\A i \in 1..Len(fetches), l \in ItemLists :
          SettleFetch(i, HttpResponse(TRUE, TRUE, TRUE, l)) =>
              LET t == sel'[fetches[i].target]
              IN /\ Len(t.options) = Len(l) + 1
                 /\ t.options[1].value = <<>>
                 /\ \A k \in 1..Len(l) :
                       t.options[k + 1] = [value |-> l[k], label |-> l[k]]
                 /\ ~t.disabled]_vars

\* ------------------------------------------------------------------------
\* Form pages: properties
\* ------------------------------------------------------------------------
\* The rows of s other than the one whose key is k, in their order.
Without(s, k) == SelectSeq(s, LAMBDA r : r.key # k)

\* A row with a required text input and a remove control that the page's
\* implementation answers to.
UsableRow(r) ==
    /\ r.input.type = "text"
    /\ r.input.required
    /\ r.remove = (IF impl = "attr" THEN "data-remove-field" ELSE "onclick")

\* C11: after N add clicks and M remove clicks (each on a row still present)
\* the container holds exactly N - M more rows than at the start; every
\* remaining added row has a required text input and a remove control; an add
\* click appends one row and keeps the others; a remove click removes exactly
\* the row whose control was clicked and no other; nothing stops the count at
\* a minimum or a maximum.
C11_AddRemoveCount ==
    /\ [](/\ Len(container) = startCount + nAdd - nRemove
          /\ \A i \in 1..Len(container) :
                 container[i].key > startCount => UsableRow(container[i]))
    /\ [][nAdd' # nAdd =>
             /\ Len(container') = Len(container) + 1
             /\ SubSeq(container', 1, Len(container)) = container]_vars
    /\ [][nRemove' # nRemove =>
             /\ \E i \in 1..Len(container) : container[i].key = clicked'
             /\ container' = Without(container, clicked')]_vars

\* Rows were present at load, rows were added, and every one of them has been
\* removed: the container is empty.
C11_Witness ==
    /\ startCount > 0
    /\ nAdd > 1
    /\ nRemove = startCount + nAdd
    /\ container = <<>>

\* Case folding of the letters the lists and queries use.
Fold(c) ==
    CASE c = "A" -> "a"
      [] c = "B" -> "b"
      [] OTHER -> c

\* needle occurs in t, letters compared without regard to case.
ContainsFolded(t, needle) ==
    \E off \in 0..(Len(t) - Len(needle)) :
        \A k \in 1..Len(needle) : Fold(t[off + k]) = Fold(needle[k])

RECURSIVE SpaceJoined(_)
SpaceJoined(ts) ==
    IF ts = <<>> THEN <<>>
    ELSE IF Len(ts) = 1 THEN ts[1]
    ELSE ts[1] \o <<" ">> \o SpaceJoined(Tail(ts))

\* The searchable text of a list child: the texts of its marked descendants,
\* or of its span descendants when none is marked, joined with a space.
SearchableText(item) ==
    LET marked == SelectSeq(item.els, LAMBDA e : e.marked)
        spans == SelectSeq(item.els, LAMBDA e : e.tag = "span")
        chosen == IF marked # <<>> THEN marked ELSE spans
    IN SpaceJoined([i \in 1..Len(chosen) |-> chosen[i].text])

\* C12: after every input event on the filter of an existing list, a child
\* is hidden if and only if its searchable text does not contain the input's
\* value as a case-insensitive substring; an empty value shows every child;
\* the children are the same, in the same order.
C12_FilterHidesNonMatching ==
    [][(query' # query /\ listExists) =>
          /\ Len(list') = Len(list)
          /\ \A i \in 1..Len(list) :
                 /\ list'[i].els = list[i].els
                 /\ list'[i].hidden <=> ~ContainsFolded(SearchableText(list[i]), query')
          /\ (query' = <<>> => \A i \in 1..Len(list) : ~list'[i].hidden)]_vars

\* C15: when the list a filter input refers to is not in the document, a
\* filter event leaves every list child as it was and raises no error.
C15_MissingListSilent ==
    [][(query' # query /\ ~listExists) => (list' = list /\ ~threw')]_vars

\* ------------------------------------------------------------------------
\* Cascade selects: further properties
\* ------------------------------------------------------------------------
\* C13: a response with a non-success HTTP status is handled like a transport
\* failure whatever its body holds: the target is not populated with items
\* (it holds a single placeholder option) and the response does not enable it.
C13_HttpErrorNotPopulated ==
    [][\A i \in 1..Len(fetches), resp \in Responses :
          (resp.kind = "http" /\ ~resp.ok /\ SettleFetch(i, resp)) =>
              LET t == fetches[i].target
              IN /\ Len(sel'[t].options) = 1
                 /\ sel'[t].options[1].value = <<>>
                 /\ sel[t].disabled => sel'[t].disabled]_vars

\* The select a change of id populates in an attribute-driven page.
PopulateTarget(id) == IF id = "catalog" THEN "schema" ELSE "table"

\* The requests in flight whose response goes to t.
InFlightFor(t) == {i \in 1..Len(fetches) : fetches[i].target = t}

\* C16: in an attribute-driven page, an enabled populate target holds its
\* placeholder followed by the items of a response; while exactly one
\* request for it is in flight the target is disabled and shows only
\* 'Loading...'; a failed request and a change to the empty value never
\* enable the target.
C16_EnabledMeansPopulated ==
    /\ [](impl = "attr" =>
            \A t \in {"schema", "table"} :
                /\ ~sel[t].disabled =>
                       \E l \in ItemLists :
                           OptionLabels(sel[t]) = <<AttrPlaceholder(t)>> \o l
                /\ Cardinality(InFlightFor(t)) = 1 =>
                       (sel[t].disabled /\ OnlyPlaceholder(sel[t], LoadingText)))
    /\ [][\A i \in 1..Len(fetches) :
             (impl = "attr" /\ SettleFetch(i, NetworkError)) =>
                 (sel[fetches[i].target].disabled =>
                      sel'[fetches[i].target].disabled)]_vars
    /\ [][\A id \in {"catalog", "schema"} :
             AttrSelect(id, <<>>) => sel'[PopulateTarget(id)].disabled]_vars

\* C17: in an id-based page, once no request is in flight, the table select
\* is enabled only if a schema is selected and the column select is enabled
\* only if a table is selected.
C17_HierarchyConsistent ==
    (impl = "id" /\ fetches = <<>>) =>
        /\ ~sel["table"].disabled => sel["schema"].value # <<>>
        /\ ~sel["column"].disabled => sel["table"].value # <<>>

\* The values updateUriFromSelection requires: catalog, schema and table, and
\* the column where one is chosen.
RequiredValues(dom) ==
    <<dom["catalog"].value, dom["schema"].value, dom["table"].value>>

\* C14: in the id-based implementation, when a required source value (the
\* label; or catalog, schema, table) is empty, an update leaves the uri field
\* with the value it had.
C14_IncompleteKeepsUri ==
    /\ [][\A v \in Labels :
             (update_uri_from_label(v) /\ v = <<>>) => uri'["uri"] = uri["uri"]]_vars
    /\ [][\A id \in SelectIds, v \in {<<>>, ItemA, ItemQ} :
             (IdSelect(id, v) /\ \E k \in 1..3 : RequiredValues(sel')[k] = <<>>) =>
                 uri'["uri"] = uri["uri"]]_vars

====
